---- MODULE Spec2Model ----
(***************************************************************************)
(* Model of django/db/models/sql/subqueries.py (DeleteQuery, UpdateQuery,  *)
(* InsertQuery) and django/contrib/gis/db/models/sql/subqueries.py         *)
(* (GeoInsertQuery).  One behaviour follows one query object: Init picks   *)
(* the class that was constructed, the actions are its methods.            *)
(***************************************************************************)
EXTENDS Integers, Sequences, FiniteSets, TLC

\* ---------------------------------------------------------------- bounds
MaxChunk == 3      \* GET_ITERATOR_CHUNK_SIZE ranges over 1..MaxChunk
MaxPks == 5        \* longest pk_list handed to delete_batch
MaxIds == 2        \* longest related_ids list
MaxDict == 2       \* most entries in the dictionary given to add_update_values
MaxUpdates == 2    \* most triples accumulated through add_update_values
MaxRelated == 3    \* most add_related_update calls on one UpdateQuery
MaxPairs == 2      \* most (field, val) pairs in one insert_values call
MaxColumns == 3    \* most columns accumulated by one InsertQuery

\* ------------------------------------------------------------ vocabulary
None == "None"
Classes == {"DeleteQuery", "UpdateQuery", "InsertQuery", "GeoInsertQuery"}
PKs == {"1", "2"}

\* self.model._meta of the query's model: its table and primary-key column
db_table == "app_italianrestaurant"
pk_column == "id"

VARIABLES
    cls,                      \* class of the query object of this behaviour
    GET_ITERATOR_CHUNK_SIZE,  \* constant imported from sql.constants
    last,                     \* the method that ran last (and the dictionary
                              \* add_update_values was given)
    exc,                      \* exception the last method raised, or None
    \* DeleteQuery
    tables, where,            \* self.tables, self.where
    pk_list, offset, pc,      \* delete_batch: argument, loop variable, position
    executed,                 \* queries handed to execute_sql by the running call
    \* UpdateQuery / InsertQuery
    values,                   \* self.values
    related_ids,              \* UpdateQuery.related_ids
    related_updates,          \* UpdateQuery.related_updates
    added,                    \* add_related_update calls so far, in order
    result,                   \* what get_related_updates returned last
    columns, params,          \* InsertQuery.columns, InsertQuery.params
    nonraw                    \* pairs passed to insert_values with raw_values=False

vars == <<cls, GET_ITERATOR_CHUNK_SIZE, last, exc, tables, where, pk_list, offset,
          pc, executed, values, related_ids, related_updates, added, result,
          columns, params, nonraw>>

deleteVars == <<tables, where, pk_list, offset, pc, executed>>
updateVars == <<related_ids, related_updates, added, result>>
insertVars == <<columns, params, nonraw>>

\* ----------------------------------------------------------------- helpers
Min(a, b) == IF a < b THEN a ELSE b

SeqsUpTo(S, n) == UNION {[1..k -> S] : k \in 0..n}

\* Python's s[lo:hi] for 0 <= lo <= hi (indices are 0-based, hi excluded)
Slice(s, lo, hi) == SubSeq(s, Min(lo, Len(s)) + 1, Min(hi, Len(s)))

EmptyDict == [k \in {} |-> <<>>]

\* ------------------------------------------------------------ DeleteQuery
\* where.add((Constraint(None, column, field), 'in', keys), AND) on a fresh
\* where_class(): one child
InConstraint(column, keys) == <<[column |-> column, lookup |-> "in", value |-> keys]>>

\* delete_batch is entered: the range() loop starts at offset 0
DeleteBatch(pks) ==
    /\ cls = "DeleteQuery"
    /\ pc # "loop"
    /\ pk_list' = pks
    /\ offset' = 0
    /\ executed' = <<>>
    /\ pc' = "loop"
    /\ last' = [op |-> "delete_batch", args |-> <<>>]
    /\ exc' = None
    /\ UNCHANGED <<cls, GET_ITERATOR_CHUNK_SIZE, tables, where, values>>
    /\ UNCHANGED updateVars
    /\ UNCHANGED insertVars

\* do_query(table, where, using): sets self.tables and self.where, then has the
\* compiler execute the query as it stands
DoQuery(table, w) ==
    /\ tables' = <<table>>
    /\ where' = w
    /\ executed' = Append(executed, [tables |-> <<table>>, where |-> w])

\* delete_batch with the slice ended one key early
DeleteBatchIterShort ==
    /\ cls = "DeleteQuery"
    /\ pc = "loop"
    /\ offset < Len(pk_list)
    /\ DoQuery(db_table,
               InConstraint(pk_column,
                            Slice(pk_list, offset, offset + GET_ITERATOR_CHUNK_SIZE - 1)))
    /\ offset' = offset + GET_ITERATOR_CHUNK_SIZE
    /\ UNCHANGED <<cls, GET_ITERATOR_CHUNK_SIZE, last, exc, pk_list, pc, values>>
    /\ UNCHANGED updateVars
    /\ UNCHANGED insertVars

\* one iteration of the loop of delete_batch
DeleteBatchIter ==
    /\ cls = "DeleteQuery"
    /\ pc = "loop"
    /\ offset < Len(pk_list)
    /\ DoQuery(db_table,
               InConstraint(pk_column,
                            Slice(pk_list, offset, offset + GET_ITERATOR_CHUNK_SIZE)))
    /\ offset' = offset + GET_ITERATOR_CHUNK_SIZE
    /\ UNCHANGED <<cls, GET_ITERATOR_CHUNK_SIZE, last, exc, pk_list, pc, values>>
    /\ UNCHANGED updateVars
    /\ UNCHANGED insertVars

\* range() is exhausted: delete_batch returns
DeleteBatchReturn ==
    /\ cls = "DeleteQuery"
    /\ pc = "loop"
    /\ offset >= Len(pk_list)
    /\ pc' = "done"
    /\ UNCHANGED <<cls, GET_ITERATOR_CHUNK_SIZE, last, exc, tables, where, pk_list,
                   offset, executed, values>>
    /\ UNCHANGED updateVars
    /\ UNCHANGED insertVars

\* ------------------------------------------------------------ UpdateQuery
\* self.model._meta.get_field_by_name(name) -> (field, model, direct, m2m);
\* model is None for a field of the query's own model and the ancestor model
\* for an inherited field.  The query's model inherits from Restaurant, which
\* inherits from Place.
FieldNames == {"serves_gnocchi", "serves_pizza", "name", "address", "tags", "waiter"}
Vals == {None, "42"}
AncestorModels == {"Restaurant", "Place"}

get_field_by_name(name) ==
    CASE name = "serves_gnocchi" -> [field |-> name, model |-> None, direct |-> TRUE, m2m |-> FALSE]
      [] name = "serves_pizza" -> [field |-> name, model |-> "Restaurant", direct |-> TRUE, m2m |-> FALSE]
      [] name = "name" -> [field |-> name, model |-> "Place", direct |-> TRUE, m2m |-> FALSE]
      [] name = "address" -> [field |-> name, model |-> "Place", direct |-> TRUE, m2m |-> FALSE]
      [] name = "tags" -> [field |-> name, model |-> None, direct |-> TRUE, m2m |-> TRUE]
      [] name = "waiter" -> [field |-> name, model |-> None, direct |-> FALSE, m2m |-> FALSE]

\* a dictionary in the order iteritems() walks it: distinct names, each with a value
DictItems(n) ==
    {d \in SeqsUpTo(FieldNames \X Vals, n) :
        \A i, j \in 1..Len(d) : d[i][1] = d[j][1] => i = j}

\* related_ids holds None or a list of keys; None is not a key, so the
\* one-element sequence <<None>> stands for the value None there
NoIds == <<None>>

\* Python truth value of related_ids: false for None and for the empty list
Truthy(x) == x # NoIds /\ Len(x) > 0

\* number of triples an UpdateQuery may still take within the model's bound
Room == MaxUpdates - (Len(values) + Len(added))

\* add_related_update without coalescing: the model's list is replaced
RelatedUpdateReplaced(ru, model, field, value) ==
    [m \in DOMAIN ru \cup {model} |->
        IF m = model THEN << <<field, None, value>> >> ELSE ru[m]]

\* the dictionary update of add_related_update, on the dictionary ru
RelatedUpdateAdded(ru, model, field, value) ==
    IF model \in DOMAIN ru
    THEN [ru EXCEPT ![model] = Append(@, <<field, None, value>>)]
    ELSE [m \in DOMAIN ru \cup {model} |->
            IF m = model THEN << <<field, None, value>> >> ELSE ru[m]]

\* the refusal with the many-to-many test forgotten
CannotUpdateIndirect(f) == ~f.direct

\* the condition under which add_update_values refuses a field
CannotUpdate(f) == ~f.direct \/ f.m2m

\* the loop of add_update_values over items[i..]; st holds values_seq, the
\* related_updates dictionary, the add_related_update calls and the exception
RECURSIVE UpdateValuesLoop(_, _, _)
UpdateValuesLoop(items, i, st) ==
    IF i > Len(items) THEN st
    ELSE LET f == get_field_by_name(items[i][1])
             val == items[i][2]
         IN  IF CannotUpdate(f) THEN [st EXCEPT !.exc = "FieldError"]
             ELSE IF f.model # None
             THEN UpdateValuesLoop(items, i + 1,
                    [st EXCEPT !.related_updates =
                                   RelatedUpdateAdded(@, f.model, f.field, val),
                               !.added = Append(@, <<f.model, f.field, val>>)])
             ELSE UpdateValuesLoop(items, i + 1,
                    [st EXCEPT !.values_seq = Append(@, <<f.field, f.model, val>>)])

\* add_update_values(values): on FieldError add_update_fields is not reached
AddUpdateValues(items) ==
    /\ cls = "UpdateQuery"
    /\ Len(items) <= Room
    /\ LET st == UpdateValuesLoop(items, 1,
                    [values_seq |-> <<>>, related_updates |-> related_updates,
                     added |-> added, exc |-> None])
       IN  /\ exc' = st.exc
           /\ related_updates' = st.related_updates
           /\ added' = st.added
           /\ values' = IF st.exc = None THEN values \o st.values_seq ELSE values
    /\ last' = [op |-> "add_update_values", args |-> items]
    /\ result' = <<>>
    /\ UNCHANGED <<cls, GET_ITERATOR_CHUNK_SIZE, related_ids>>
    /\ UNCHANGED deleteVars
    /\ UNCHANGED insertVars

\* add_update_fields(values_seq), the "fast" path used when saving a model
AddUpdateFields(values_seq) ==
    /\ cls = "UpdateQuery"
    /\ Len(values_seq) <= Room
    /\ values' = values \o values_seq
    /\ last' = [op |-> "add_update_fields", args |-> <<>>]
    /\ exc' = None
    /\ result' = <<>>
    /\ UNCHANGED <<cls, GET_ITERATOR_CHUNK_SIZE, related_ids, related_updates, added>>
    /\ UNCHANGED deleteVars
    /\ UNCHANGED insertVars

\* add_related_update(model, field, value)
AddRelatedUpdate(model, field, value) ==
    /\ cls = "UpdateQuery"
    /\ Len(added) < MaxRelated
    /\ related_updates' = RelatedUpdateAdded(related_updates, model, field, value)
    /\ added' = Append(added, <<model, field, value>>)
    /\ last' = [op |-> "add_related_update", args |-> <<>>]
    /\ exc' = None
    /\ result' = <<>>
    /\ UNCHANGED <<cls, GET_ITERATOR_CHUNK_SIZE, values, related_ids>>
    /\ UNCHANGED deleteVars
    /\ UNCHANGED insertVars

\* the update compiler records the primary keys of the rows the query matched
\* in related_ids before the ancestor updates are asked for
SetRelatedIds(ids) ==
    /\ cls = "UpdateQuery"
    /\ related_ids' = ids
    /\ last' = [op |-> "related_ids", args |-> <<>>]
    /\ exc' = None
    /\ result' = <<>>
    /\ UNCHANGED <<cls, GET_ITERATOR_CHUNK_SIZE, values, related_updates, added>>
    /\ UNCHANGED deleteVars
    /\ UNCHANGED insertVars

\* the orders in which iteritems() may walk a dictionary with keys K
Orders(K) ==
    {o \in [1..Cardinality(K) -> K] : \A i, j \in DOMAIN o : o[i] = o[j] => i = j}

\* UpdateQuery(model) followed by query.values = values and, when
\* self.related_ids is true, query.add_filter(('pk__in', self.related_ids))
RelatedQuery(model, vals, ids) ==
    [model |-> model,
     values |-> vals,
     related_ids |-> NoIds,
     related_updates |-> EmptyDict,
     where |-> IF Truthy(ids) THEN << <<"pk__in", ids>> >> ELSE <<>>]

\* get_related_updates()
GetRelatedUpdates ==
    /\ cls = "UpdateQuery"
    /\ IF DOMAIN related_updates = {}
       THEN result' = <<>>
       ELSE \E o \in Orders(DOMAIN related_updates) :
              result' = [i \in DOMAIN o |->
                           RelatedQuery(o[i], related_updates[o[i]], related_ids)]
    /\ last' = [op |-> "get_related_updates", args |-> <<>>]
    /\ exc' = None
    /\ UNCHANGED <<cls, GET_ITERATOR_CHUNK_SIZE, values, related_ids, related_updates, added>>
    /\ UNCHANGED deleteVars
    /\ UNCHANGED insertVars

\* ------------------------------------------- InsertQuery, GeoInsertQuery
\* a field is its column and whether it has a get_placeholder method
Fields == {[column |-> "name", has_get_placeholder |-> FALSE],
           [column |-> "point", has_get_placeholder |-> TRUE]}

\* what field.get_placeholder(val, connection) may return
Placeholders == {"NULL", "ST_GeomFromText(%s)"}

\* one (field, val) pair of insert_values, with the placeholder the field's
\* get_placeholder returns for val when the field has that method
Pairs ==
    {[field |-> f, val |-> v, get_placeholder |-> p] :
        f \in Fields, v \in Vals, p \in Placeholders}

PairSeqs ==
    {ps \in SeqsUpTo(Pairs, MaxPairs) :
        \A i \in 1..Len(ps) :
            ~ps[i].field.has_get_placeholder => ps[i].get_placeholder = "NULL"}

\* the loop with get_placeholder never consulted
PlaceholderPlain(pair) == "%s"

\* the placeholder the loop appends for one pair
PlaceholderOf(pair) ==
    IF pair.field.has_get_placeholder THEN pair.get_placeholder ELSE "%s"

\* GeoInsertQuery appends val unless the placeholder just appended is 'NULL';
\* InsertQuery appends it always
ValueKept(class, pair) ==
    IF class = "GeoInsertQuery" THEN ~(PlaceholderOf(pair) = "NULL") ELSE TRUE

\* the loop of insert_values over pairs[i..]; st holds placeholders, values
\* and self.columns
RECURSIVE InsertValuesLoop(_, _, _, _)
InsertValuesLoop(class, pairs, i, st) ==
    IF i > Len(pairs) THEN st
    ELSE InsertValuesLoop(class, pairs, i + 1,
            [placeholders |-> Append(st.placeholders, PlaceholderOf(pairs[i])),
             columns |-> Append(st.columns, pairs[i].field.column),
             values |-> IF ValueKept(class, pairs[i])
                        THEN Append(st.values, pairs[i].val)
                        ELSE st.values])

\* insert_values(insert_values, connection, raw_values)
InsertValues(pairs, raw_values) ==
    /\ cls \in {"InsertQuery", "GeoInsertQuery"}
    /\ Len(columns) + Len(pairs) <= MaxColumns
    /\ LET st == InsertValuesLoop(cls, pairs, 1,
                    [placeholders |-> <<>>, columns |-> columns, values |-> <<>>])
       IN  /\ columns' = st.columns
           /\ IF raw_values
              THEN /\ values' = values \o st.values
                   /\ params' = params
              ELSE /\ params' = params \o st.values
                   /\ values' = values \o st.placeholders
    /\ nonraw' = IF raw_values THEN nonraw ELSE nonraw + Len(pairs)
    /\ last' = [op |-> "insert_values", args |-> <<pairs, raw_values>>]
    /\ exc' = None
    /\ UNCHANGED <<cls, GET_ITERATOR_CHUNK_SIZE>>
    /\ UNCHANGED deleteVars
    /\ UNCHANGED updateVars

\* ------------------------------------------------------------------- system
\* a query object right after construction
Init ==
    /\ cls \in Classes
    /\ GET_ITERATOR_CHUNK_SIZE \in 1..MaxChunk
    /\ last = [op |-> "__init__", args |-> <<>>]
    /\ exc = None
    /\ tables = <<>>
    /\ where = <<>>
    /\ pk_list = <<>>
    /\ offset = 0
    /\ pc = "idle"
    /\ executed = <<>>
    /\ values = <<>>
    /\ related_ids = NoIds
    /\ related_updates = EmptyDict
    /\ added = <<>>
    /\ result = <<>>
    /\ columns = <<>>
    /\ params = <<>>
    /\ nonraw = 0

Dicts == DictItems(MaxDict)
FieldSeqs == SeqsUpTo({"serves_gnocchi"} \X {None} \X Vals, MaxDict)
PkLists == SeqsUpTo(PKs, MaxPks)
IdLists == SeqsUpTo(PKs, MaxIds)

\* add_related_update is called with an ancestor model and one of its fields
RelatedCalls ==
    {c \in AncestorModels \X FieldNames \X Vals : get_field_by_name(c[2]).model = c[1]}

\* a DeleteQuery and its delete_batch
NextDelete ==
    \/ \E pks \in PkLists : DeleteBatch(pks)
    \/ DeleteBatchIter
    \/ DeleteBatchReturn

InitDelete == Init /\ cls = "DeleteQuery"
SpecDelete == InitDelete /\ [][NextDelete]_vars

\* an UpdateQuery, its ancestor updates and the keys the compiler records
NextRelated ==
    \/ \E c \in RelatedCalls : AddRelatedUpdate(c[1], c[2], c[3])
    \/ \E ids \in IdLists : SetRelatedIds(ids)
    \/ GetRelatedUpdates

\* (the methods below do not read GET_ITERATOR_CHUNK_SIZE)
InitUpdate == Init /\ cls = "UpdateQuery" /\ GET_ITERATOR_CHUNK_SIZE = 1
SpecRelated == InitUpdate /\ [][NextRelated]_vars

\* an UpdateQuery fed through add_update_values and add_update_fields
NextUpdateValues ==
    \/ \E items \in Dicts : AddUpdateValues(items)
    \/ \E vs \in FieldSeqs : AddUpdateFields(vs)

SpecUpdateValues == InitUpdate /\ [][NextUpdateValues]_vars

\* an InsertQuery or a GeoInsertQuery and its insert_values
NextInsert ==
    \E pairs \in PairSeqs, raw_values \in BOOLEAN : InsertValues(pairs, raw_values)

InitInsert ==
    Init /\ cls \in {"InsertQuery", "GeoInsertQuery"} /\ GET_ITERATOR_CHUNK_SIZE = 1
SpecInsert == InitInsert /\ [][NextInsert]_vars

\* ------------------------------------------------------------------ claims
RECURSIVE Flatten(_)
Flatten(ss) == IF ss = <<>> THEN <<>> ELSE Head(ss) \o Flatten(Tail(ss))

CeilDiv(a, b) == (a + b - 1) \div b

\* C1: when delete_batch(pk_list) has returned it has executed exactly
\* ceil(len(pk_list) / GET_ITERATOR_CHUNK_SIZE) queries, each on the model's
\* own table with one primary-key 'in' constraint holding between 1 and
\* GET_ITERATOR_CHUNK_SIZE keys, and the 'in' lists in execution order
\* concatenate to pk_list.
C1_DeleteBatchCoversPkList ==
    pc = "done" =>
        /\ Len(executed) = CeilDiv(Len(pk_list), GET_ITERATOR_CHUNK_SIZE)
        /\ \A i \in 1..Len(executed) :
              /\ executed[i].tables = <<db_table>>
              /\ Len(executed[i].where) = 1
              /\ executed[i].where[1].column = pk_column
              /\ executed[i].where[1].lookup = "in"
              /\ Len(executed[i].where[1].value) \in 1..GET_ITERATOR_CHUNK_SIZE
        /\ Flatten([i \in 1..Len(executed) |-> executed[i].where[1].value]) = pk_list

\* delete_batch returned after several queries, the last one a partial chunk
C1_Witness ==
    /\ pc = "done"
    /\ Len(executed) >= 2
    /\ Len(pk_list) % GET_ITERATOR_CHUNK_SIZE # 0

\* C2: whenever related_ids holds a list of keys (possibly empty), every query
\* get_related_updates() returns carries exactly one filter, pk__in on that list.
C2_SameFilterAsCurrentQuery ==
    (last.op = "get_related_updates" /\ related_ids # NoIds) =>
        \A i \in 1..Len(result) : result[i].where = << <<"pk__in", related_ids>> >>

\* the triples add_related_update was given for model m, in call order
AddedFor(m) ==
    LET IsFor(e) == e[1] = m
        calls == SelectSeq(added, IsFor)
    IN  [i \in 1..Len(calls) |-> <<calls[i][2], None, calls[i][3]>>]

AddedModels == {added[i][1] : i \in 1..Len(added)}

\* C3: get_related_updates() returns exactly one query per distinct model
\* passed to add_related_update (none when there was no call); each targets
\* that model and its values are the (field, None, value) triples added for
\* the model, in the order they were added.
C3_Coalesced ==
    last.op = "get_related_updates" =>
        /\ Len(result) = Cardinality(AddedModels)
        /\ \A m \in AddedModels : \E i \in 1..Len(result) : result[i].model = m
        /\ \A i \in 1..Len(result) :
              /\ result[i].model \in AddedModels
              /\ result[i].values = AddedFor(result[i].model)

\* two ancestors were updated, one of them twice, and the queries were asked for
C3_Witness ==
    /\ last.op = "get_related_updates"
    /\ Len(result) = 2
    /\ \E i \in 1..Len(result) : Len(result[i].values) >= 2

\* C4: a call of InsertQuery.insert_values appends every pair's column to
\* columns in order; with raw_values it appends the values to self.values and
\* leaves params alone, otherwise it appends one placeholder per pair (the
\* field's get_placeholder result, or '%s') to self.values and the values to
\* params.  So columns and values stay equally long and params is as long as
\* the number of pairs passed in non-raw calls.
C4_InsertValues ==
    [][(cls = "InsertQuery" /\ last'.op = "insert_values") =>
        LET pairs == last'.args[1]
            raw_values == last'.args[2]
            n == Len(pairs)
        IN  /\ columns' = columns \o [i \in 1..n |-> pairs[i].field.column]
            /\ raw_values =>
                  /\ values' = values \o [i \in 1..n |-> pairs[i].val]
                  /\ params' = params
            /\ ~raw_values =>
                  /\ values' = values \o
                        [i \in 1..n |-> IF pairs[i].field.has_get_placeholder
                                        THEN pairs[i].get_placeholder ELSE "%s"]
                  /\ params' = params \o [i \in 1..n |-> pairs[i].val]
            /\ Len(columns') = Len(values')
            /\ Len(params') = nonraw']_vars

\* an InsertQuery took raw values and then parameters, one of them through a
\* field's get_placeholder
C4_Witness ==
    /\ cls = "InsertQuery"
    /\ last.op = "insert_values"
    /\ ~last.args[2]
    /\ nonraw >= 1
    /\ Len(values) > nonraw
    /\ \E i \in 1..Len(values) : values[i] = "ST_GeomFromText(%s)"

\* C5: as long as a GeoInsertQuery was only given raw values, columns and
\* values are equally long and params is empty.
C5_GeoRawValuesInsertedDirectly ==
    (cls = "GeoInsertQuery" /\ nonraw = 0) =>
        /\ Len(columns) = Len(values)
        /\ params = <<>>

\* the (field, model, val) triples of the names of items that get_field_by_name
\* places on model m
TriplesOn(items, m, tag) ==
    LET IsOn(e) == get_field_by_name(e[1]).model = m
        on == SelectSeq(items, IsOn)
    IN  [i \in 1..Len(on) |-> <<on[i][1], tag, on[i][2]>>]

UpdatesBefore(m) == IF m \in DOMAIN related_updates THEN related_updates[m] ELSE <<>>

\* C6: add_update_values raises FieldError exactly when some name of the
\* dictionary resolves to a field that is not direct or is many-to-many; when
\* it does not raise, the own-model names add their (field, None, val) triples
\* to self.values and the ancestor names add theirs to related_updates[model],
\* and nothing else changes in either.
C6_AddUpdateValues ==
    [][last'.op = "add_update_values" =>
        LET items == last'.args
        IN  /\ exc' = "FieldError" <=>
                  \E i \in 1..Len(items) :
                      \/ ~get_field_by_name(items[i][1]).direct
                      \/ get_field_by_name(items[i][1]).m2m
            /\ exc' # "FieldError" =>
                  /\ values' = values \o TriplesOn(items, None, None)
                  /\ DOMAIN related_updates' =
                        DOMAIN related_updates \cup
                        ({get_field_by_name(items[i][1]).model : i \in 1..Len(items)}
                            \ {None})
                  /\ \A m \in DOMAIN related_updates' :
                        related_updates'[m] = UpdatesBefore(m) \o TriplesOn(items, m, None)]_vars

\* a dictionary with an own field and an inherited field was accepted
C6_Witness ==
    /\ last.op = "add_update_values"
    /\ exc = None
    /\ \E i, j \in 1..Len(last.args) :
          /\ get_field_by_name(last.args[i][1]).model = None
          /\ get_field_by_name(last.args[j][1]).model # None
====
